---------------------------- MODULE Spec2Model ----------------------------
(***************************************************************************)
(* A model of the llm-council backend: the streaming stage orchestrator    *)
(* (backend/main.py), the provider registry (backend/providers.py) and the *)
(* Copilot token lifecycle (backend/copilot.py).                           *)
(*                                                                         *)
(* The specifications of the module:                                       *)
(*   SpecStream   - send_message_stream and its event generator            *)
(*   SpecRegistry - ProviderRegistry: register, query_model, the fan-outs  *)
(*   SpecParse    - ProviderRegistry.parse_model_identifier                *)
(*   SpecToken    - CopilotService: get_copilot_api_token, clear_token     *)
(*   SpecQuery    - CopilotService.query_model, concurrent with logout     *)
(*   SpecPoll     - CopilotService.poll_for_access_token                   *)
(*   SpecPollLive - SpecPoll with the sleeps and requests ending           *)
(*   SpecKey      - encrypt_token, decrypt_token and the encryption key    *)
(*   SpecAuth     - every operation of CopilotService, interleaved         *)
(* Each leaves the variables of the other components unchanged.            *)
(***************************************************************************)
EXTENDS Integers, Sequences, FiniteSets, TLC

(***************************************************************************)
(* Bounds of the model.                                                    *)
(***************************************************************************)
\* concurrent streaming requests against the one conversation
NumRequests == 2

Requests == 1..NumRequests

\* longest model identifier handed to parse_model_identifier, in tokens
MaxLen == 3

\* longest model_ids list handed to a fan-out call
MaxModels == 2

\* concurrent calls of get_copilot_api_token
NumCallers == 2

\* how often the clock advances
MaxTicks == 2

\* token-exchange requests sent in one run
MaxExchanges == 2

\* largest max_attempts handed to poll_for_access_token
MaxAttempts == 3

IsPrefix(s, t) == Len(s) <= Len(t) /\ SubSeq(t, 1, Len(s)) = s

Last(s) == s[Len(s)]

Front(s) == SubSeq(s, 1, Len(s) - 1)

(***************************************************************************)
(* State of the streaming orchestrator (backend/main.py).                  *)
(***************************************************************************)
VARIABLES
    messages,          \* the stored conversation's messages
    title,             \* the stored conversation's title
    pc,                \* per request: where the handler / generator stands
    is_first_message,  \* per request: the handler's local of that name
    title_task,        \* per request: "None", or the state of the asyncio task
    frames,            \* per request: the frames the generator has yielded
    raised,            \* per request: the exception caught by the generator, "" if none
    stage1_results,    \* per request: the generator's local of that name
    stage2_results,    \* per request: the generator's local of that name
    stage3_result      \* per request: the generator's local of that name

stageLocals == <<stage1_results, stage2_results, stage3_result>>

streamVars == <<messages, title, pc, is_first_message, title_task, frames, raised,
                stageLocals>>

(***************************************************************************)
(* State of the provider registry (backend/providers.py).                  *)
(***************************************************************************)
VARIABLES
    providers,         \* ProviderRegistry._providers: name -> class of the provider
    api_key,           \* OpenRouterProvider: bool(self.api_key)
    call,              \* the registry call in progress
    tstate,            \* per query of the call: "created", "awaiting", "done"
    responses,         \* per query of the call: what query_model returned
    invocations,       \* per query of the call: the provider.query_model calls made
    result,            \* the mapping being built / returned by a fan-out call
    returned,          \* whether the call has returned
    events,            \* sequential fan-out: the order of queries and sleeps
    parse_arg,         \* the identifier of the latest parse_model_identifier call
    parse_ret,         \* what that call returned
    parse_seq,         \* 0 before any parse call, then alternating 1, 2
    parse_names        \* the registered names when that call was made

registryVars == <<providers, api_key, call, tstate, responses,
                  invocations, result, returned, events>>

parseVars == <<parse_arg, parse_ret, parse_seq, parse_names>>

(***************************************************************************)
(* State of the Copilot service (backend/copilot.py).                      *)
(***************************************************************************)
VARIABLES
    token_file,         \* the stored access-token file: NoFile, or what it holds
    cached_api_token,   \* CopilotService._cached_api_token, 0 for None
    api_token_expires,  \* CopilotService._api_token_expires
    now,                \* time.time(), in seconds
    ticks,              \* how often the clock has advanced
    exchange_count,     \* token-exchange requests sent so far
    tpc,                \* per get_copilot_api_token call: where it stands
    taccess,            \* per call: its local access_token
    tret,               \* per call: the value returned, 0 for None
    texchanges,         \* per call: the exchange requests it has sent
    toutcome            \* per call: how its exchange request ended

\* the encryption key of the installation (data/.encryption_key)
VARIABLES
    key_file,           \* the key the key file holds, 0 while there is no key file
    keys_generated      \* how many keys Fernet.generate_key has handed out

keyVars == <<key_file, keys_generated>>

\* a caller of encrypt_token and decrypt_token
VARIABLES
    rt_plain,           \* the string it last encrypted
    rt_cipher,          \* the ciphertext it holds
    rt_tampered,        \* whether that ciphertext was altered since encrypt_token made it
    rt_out              \* <<what decrypt_token gave for it>>, <<>> before the call

cryptoVars == <<rt_plain, rt_cipher, rt_tampered, rt_out>>

\* CopilotService.query_model, per caller
VARIABLES
    qpc,                \* where the call stands: "idle", "token", "posting", "returned"
    qtoken,             \* its local api_token, 0 for None
    completions,        \* the completion requests it has sent (their bearer tokens)
    qoutcome,           \* how its completion request ended, "" if none has
    qret                \* what it returned: "" while running, None, or "response"

queryVars == <<qpc, qtoken, completions, qoutcome, qret>>

\* the device flow: get_device_code and poll_for_access_token
VARIABLES
    dpc,                \* get_device_code: "idle", "awaiting", "returned", "raised"
    ppc,                \* poll_for_access_token: "idle", "sleeping", "posting",
                        \*   "returned", "raised"
    poll_args,          \* the interval and max_attempts the call was made with
    interval,           \* its local interval
    attempt,            \* its loop variable
    plog,               \* what the call has done so far: sleeps, requests, responses, saves
    pret                \* what it returned

pollVars == <<dpc, ppc, poll_args, interval, attempt, plog, pret>>

copilotVars == <<token_file, cached_api_token, api_token_expires, now, ticks,
                 exchange_count, tpc, taccess, tret, texchanges, toutcome,
                 queryVars, pollVars, keyVars, cryptoVars>>

vars == <<streamVars, registryVars, parseVars, copilotVars>>


\* the descriptions of the exceptions the generator's steps can raise
Failures == {"add_user_message", "stage1_collect_responses",
             "stage2_collect_rankings", "calculate_aggregate_rankings",
             "stage3_synthesize_final", "generate_conversation_title",
             "update_conversation_title", "add_assistant_message"}

Frame(type, data) == [type |-> type, data |-> data]

ErrorFrameNoMessage(e) == Frame("error", "")

\* except Exception as e: yield {'type': 'error', 'message': str(e)}
ErrorFrame(e) == Frame("error", e)

Types(fs) == [i \in 1..Len(fs) |-> fs[i].type]

TitleTaskAlways(first) == "pending"

TitleTaskNever(first) == "None"

\* title_task = None; if is_first_message: title_task = asyncio.create_task(...)
TitleTaskFor(first) == IF first THEN "pending" ELSE "None"

\* yield one frame and suspend at that yield
Emit(r, type, data, at) ==
    /\ frames' = [frames EXCEPT ![r] = Append(@, Frame(type, data))]
    /\ pc' = [pc EXCEPT ![r] = at]

\* an exception escapes a step: the except clause yields the error frame
Raise(r, e) ==
    /\ frames' = [frames EXCEPT ![r] = Append(@, ErrorFrame(e))]
    /\ raised' = [raised EXCEPT ![r] = e]
    /\ pc' = [pc EXCEPT ![r] = "y_error"]

\* a local that has not been assigned yet
Unset == <<"unset", 0>>

\* what phase `stage` computes from the content of request r
StageOutput(stage, r) == <<stage, r>>

\* the stored form of a user message; the content of request r is r
UserMessage(content) == [role |-> "user", content |-> content]

AssistantMessageFinalOnly(s1, s2, s3) ==
    [role |-> "assistant", stage1 |-> Unset, stage2 |-> Unset, stage3 |-> s3]

\* the stored form of an assistant message
AssistantMessage(s1, s2, s3) ==
    [role |-> "assistant", stage1 |-> s1, stage2 |-> s2, stage3 |-> s3]

add_user_message_dropped(msgs, content) == msgs

\* storage.add_user_message(conversation_id, request.content), when it succeeds
add_user_message(msgs, content) == Append(msgs, UserMessage(content))

\* storage.add_assistant_message(conversation_id, ...), when it succeeds
add_assistant_message(msgs, s1, s2, s3) == Append(msgs, AssistantMessage(s1, s2, s3))

\* the turn an earlier request (request 0) left in the conversation
EarlierTurn ==
    <<UserMessage(0),
      AssistantMessage(StageOutput("stage1_results", 0), StageOutput("stage2_results", 0),
                       StageOutput("stage3_result", 0))>>

StreamInitWith(conversations) ==
    /\ messages \in conversations
    /\ stage1_results = [r \in Requests |-> Unset]
    /\ stage2_results = [r \in Requests |-> Unset]
    /\ stage3_result = [r \in Requests |-> Unset]
    /\ title = "New Conversation"
    /\ pc = [r \in Requests |-> "idle"]
    /\ is_first_message = [r \in Requests |-> FALSE]
    /\ title_task = [r \in Requests |-> "None"]
    /\ frames = [r \in Requests |-> <<>>]
    /\ raised = [r \in Requests |-> ""]

\* the conversation is fresh, or holds an earlier turn
StreamInit == StreamInitWith({<<>>, EarlierTurn})

\* the handler body: look the conversation up, note whether it is empty,
\* return the StreamingResponse (the generator has not started yet)
SendMessageStream(r) ==
    /\ pc[r] = "idle"
    /\ \E found \in BOOLEAN :
         IF found
         THEN /\ is_first_message' = [is_first_message EXCEPT ![r] = (Len(messages) = 0)]
              /\ pc' = [pc EXCEPT ![r] = "start"]
         ELSE /\ pc' = [pc EXCEPT ![r] = "http404"]
              /\ UNCHANGED is_first_message
    /\ UNCHANGED <<messages, title, title_task, frames, raised>>
    /\ UNCHANGED stageLocals
    /\ UNCHANGED <<registryVars, parseVars, copilotVars>>

\* generator, up to its first yield: add the user message, start the title
\* task on a first message, yield stage1_start
GenStart(r) ==
    /\ pc[r] = "start"
    /\ \E ok \in BOOLEAN :
         IF ok
         THEN /\ messages' = add_user_message(messages, r)
              /\ title_task' = [title_task EXCEPT ![r] = TitleTaskFor(is_first_message[r])]
              /\ Emit(r, "stage1_start", "", "y_stage1_start")
              /\ UNCHANGED raised
         ELSE /\ Raise(r, "add_user_message")
              /\ UNCHANGED <<messages, title_task>>
    /\ UNCHANGED <<title, is_first_message>>
    /\ UNCHANGED stageLocals
    /\ UNCHANGED <<registryVars, parseVars, copilotVars>>

\* resumed after yielding a start frame: call the phase and suspend in its await
CallStage(r) ==
    /\ pc[r] \in {"y_stage1_start", "y_stage2_start", "y_stage3_start"}
    /\ pc' = [pc EXCEPT ![r] =
                CASE pc[r] = "y_stage1_start" -> "await_stage1"
                  [] pc[r] = "y_stage2_start" -> "await_stage2"
                  [] OTHER -> "await_stage3"]
    /\ UNCHANGED <<messages, title, is_first_message, title_task, frames, raised>>
    /\ UNCHANGED stageLocals
    /\ UNCHANGED <<registryVars, parseVars, copilotVars>>

\* stage1_collect_responses returns or raises
Stage1Return(r) ==
    /\ pc[r] = "await_stage1"
    /\ \E ok \in BOOLEAN :
         IF ok
         THEN /\ stage1_results' = [stage1_results EXCEPT ![r] = StageOutput("stage1_results", r)]
              /\ Emit(r, "stage1_complete", stage1_results'[r], "y_stage1_complete")
              /\ UNCHANGED raised
         ELSE Raise(r, "stage1_collect_responses") /\ UNCHANGED stage1_results
    /\ UNCHANGED <<messages, title, is_first_message, title_task>>
    /\ UNCHANGED <<stage2_results, stage3_result>>
    /\ UNCHANGED <<registryVars, parseVars, copilotVars>>

\* resumed after yielding stageN_complete: yield the next start frame
NextStageStart(r) ==
    /\ pc[r] \in {"y_stage1_complete", "y_stage2_complete"}
    /\ IF pc[r] = "y_stage1_complete"
       THEN Emit(r, "stage2_start", "", "y_stage2_start")
       ELSE Emit(r, "stage3_start", "", "y_stage3_start")
    /\ UNCHANGED <<messages, title, is_first_message, title_task, raised>>
    /\ UNCHANGED stageLocals
    /\ UNCHANGED <<registryVars, parseVars, copilotVars>>

\* stage2_collect_rankings returns or raises; calculate_aggregate_rankings
\* runs in the same step (no suspension point in between)
Stage2Return(r) ==
    /\ pc[r] = "await_stage2"
    /\ \E ok \in BOOLEAN, okAggregate \in BOOLEAN :
         CASE ~ok -> Raise(r, "stage2_collect_rankings") /\ UNCHANGED stage2_results
           [] ok /\ ~okAggregate ->
                  /\ stage2_results' = [stage2_results EXCEPT ![r] = StageOutput("stage2_results", r)]
                  /\ Raise(r, "calculate_aggregate_rankings")
           [] OTHER ->
                  /\ stage2_results' = [stage2_results EXCEPT ![r] = StageOutput("stage2_results", r)]
                  /\ Emit(r, "stage2_complete", stage2_results'[r], "y_stage2_complete")
                  /\ UNCHANGED raised
    /\ UNCHANGED <<messages, title, is_first_message, title_task>>
    /\ UNCHANGED <<stage1_results, stage3_result>>
    /\ UNCHANGED <<registryVars, parseVars, copilotVars>>

\* stage3_synthesize_final returns or raises
Stage3Return(r) ==
    /\ pc[r] = "await_stage3"
    /\ \E ok \in BOOLEAN :
         IF ok
         THEN /\ stage3_result' = [stage3_result EXCEPT ![r] = StageOutput("stage3_result", r)]
              /\ Emit(r, "stage3_complete", stage3_result'[r], "y_stage3_complete")
              /\ UNCHANGED raised
         ELSE Raise(r, "stage3_synthesize_final") /\ UNCHANGED stage3_result
    /\ UNCHANGED <<messages, title, is_first_message, title_task>>
    /\ UNCHANGED <<stage1_results, stage2_results>>
    /\ UNCHANGED <<registryVars, parseVars, copilotVars>>

\* storage.add_assistant_message(...), then yield complete
SaveAssistantMessage(r) ==
    \E ok \in BOOLEAN :
        IF ok
        THEN /\ messages' = add_assistant_message(messages, stage1_results[r],
                                                  stage2_results[r], stage3_result[r])
             /\ Emit(r, "complete", "", "y_complete")
             /\ UNCHANGED raised
        ELSE /\ Raise(r, "add_assistant_message")
             /\ UNCHANGED messages

\* resumed after yielding stage3_complete: with a title task, await it;
\* without one, go on to save the assistant message
AfterStage3(r) ==
    /\ pc[r] = "y_stage3_complete"
    /\ IF title_task[r] # "None"
       THEN /\ pc' = [pc EXCEPT ![r] = "await_title"]
            /\ UNCHANGED <<messages, frames, raised>>
       ELSE SaveAssistantMessage(r)
    /\ UNCHANGED <<title, is_first_message, title_task>>
    /\ UNCHANGED stageLocals
    /\ UNCHANGED <<registryVars, parseVars, copilotVars>>

\* the background task generate_conversation_title finishes or raises
TitleTaskRun(r) ==
    /\ title_task[r] = "pending"
    /\ \E ok \in BOOLEAN :
         title_task' = [title_task EXCEPT ![r] = IF ok THEN "done" ELSE "failed"]
    /\ UNCHANGED <<messages, title, pc, is_first_message, frames, raised>>
    /\ UNCHANGED stageLocals
    /\ UNCHANGED <<registryVars, parseVars, copilotVars>>

\* title = await title_task; storage.update_conversation_title; yield title_complete
AwaitTitle(r) ==
    /\ pc[r] = "await_title"
    /\ title_task[r] \in {"done", "failed"}
    /\ \E okUpdate \in BOOLEAN :
         CASE title_task[r] = "failed" ->
                  Raise(r, "generate_conversation_title") /\ UNCHANGED title
           [] title_task[r] = "done" /\ ~okUpdate ->
                  Raise(r, "update_conversation_title") /\ UNCHANGED title
           [] OTHER ->
                  /\ title' = "generated title"
                  /\ Emit(r, "title_complete", "generated title", "y_title_complete")
                  /\ UNCHANGED raised
    /\ UNCHANGED <<messages, is_first_message, title_task>>
    /\ UNCHANGED stageLocals
    /\ UNCHANGED <<registryVars, parseVars, copilotVars>>

\* resumed after yielding title_complete
AfterTitle(r) ==
    /\ pc[r] = "y_title_complete"
    /\ SaveAssistantMessage(r)
    /\ UNCHANGED <<title, is_first_message, title_task>>
    /\ UNCHANGED stageLocals
    /\ UNCHANGED <<registryVars, parseVars, copilotVars>>

\* resumed after yielding complete or error: the generator returns
GenReturn(r) ==
    /\ pc[r] \in {"y_complete", "y_error"}
    /\ pc' = [pc EXCEPT ![r] = "done"]
    /\ UNCHANGED <<messages, title, is_first_message, title_task, frames, raised>>
    /\ UNCHANGED stageLocals
    /\ UNCHANGED <<registryVars, parseVars, copilotVars>>



NoFile == <<"absent">>

get_encryption_key_regenerating == keys_generated + 1

\* get_encryption_key: the key in the key file, or a newly generated one
\* (unlike every key generated before) when there is no key file
get_encryption_key == IF key_file # 0 THEN key_file ELSE keys_generated + 1

\* the key file and the count of keys after a call of get_encryption_key
UseKey ==
    /\ key_file' = get_encryption_key
    /\ keys_generated' = IF get_encryption_key = key_file
                          THEN keys_generated ELSE keys_generated + 1

\* encrypt_token: the Fernet ciphertext of a token under get_encryption_key()
encrypt_token(token) == <<"fernet", token, get_encryption_key>>

\* a token file that does not decrypt (tampered with, or written under another key)
Tampered == <<"garbage">>

\* decrypt_token: the plaintext when the ciphertext is intact and was made
\* under get_encryption_key(), else the exception Fernet (or base64) raises
decrypt_token(encrypted) ==
    IF encrypted[1] = "fernet" /\ encrypted[3] = get_encryption_key
    THEN [ok |-> TRUE, plain |-> encrypted[2]]
    ELSE [ok |-> FALSE, plain |-> ""]

AccessTokens == {"gho_token"}

\* CopilotService.is_authenticated: self.token_file.exists()
is_authenticated == token_file # NoFile


\* An identifier is a string, modelled as a sequence of tokens: the separator
\* "/" and words that hold no separator.
Separator == "/"

Words == {"copilot", "openrouter", "openai", "gpt"}

Alphabet == Words \cup {Separator}

SeqsUpTo(S, n) == UNION {[1..k -> S] : k \in 1..n}

\* every non-empty identifier of at most MaxLen tokens
Identifiers == SeqsUpTo(Alphabet, MaxLen)

\* the identifiers the fan-out calls are made with:
\* "copilot/gpt", "openai/gpt", "gpt"
CouncilIds == {<<"copilot", "/", "gpt">>, <<"openai", "/", "gpt">>, <<"gpt">>}

Timeouts == {30, 120}

Delays == {1, 2}

\* the provider objects that can be handed to register
ProviderObjects ==
    {[name |-> "openrouter", kind |-> "OpenRouterProvider"],
     [name |-> "copilot", kind |-> "CopilotProvider"],
     [name |-> "openai", kind |-> "Custom"]}

\* index of the first separator of s, 0 when it has none
FirstSeparator(s) ==
    IF \E i \in 1..Len(s) : s[i] = Separator
    THEN CHOOSE i \in 1..Len(s) :
             /\ s[i] = Separator
             /\ \A j \in 1..(i - 1) : s[j] # Separator
    ELSE 0

LastSeparator(s) ==
    IF \E i \in 1..Len(s) : s[i] = Separator
    THEN CHOOSE i \in 1..Len(s) :
             /\ s[i] = Separator
             /\ \A j \in (i + 1)..Len(s) : s[j] # Separator
    ELSE 0

\* model_id.split("/", 1): <<model_id>> without a separator, else
\* <<text before the first separator, text after it>>
Split1(s) ==
    LET k == FirstSeparator(s) IN
    IF k = 0 THEN <<s>> ELSE <<SubSeq(s, 1, k - 1), SubSeq(s, k + 1, Len(s))>>

\* the string `prefix` is a key of self._providers
IsRegisteredName(prefix) == Len(prefix) = 1 /\ prefix[1] \in DOMAIN providers

\* what is_available() of the provider registered under `name` can answer:
\* OpenRouterProvider bool(self.api_key), CopilotProvider
\* self.service.is_authenticated(), any other Provider whatever it implements
IsAvailable(name) ==
    CASE providers[name] = "OpenRouterProvider" -> {api_key}
      [] providers[name] = "CopilotProvider" -> {is_authenticated}
      [] OTHER -> BOOLEAN

parse_by_availability(model_id) ==
    LET parts == Split1(model_id) IN
    IF Len(parts) = 1 THEN <<"copilot", model_id>>
    ELSE IF IsRegisteredName(parts[1]) /\ IsAvailable(parts[1][1]) = {TRUE}
         THEN <<parts[1][1], parts[2]>>
         ELSE <<"openrouter", model_id>>

parse_split_last(model_id) ==
    LET k == LastSeparator(model_id) IN
    IF k = 0 THEN <<"copilot", model_id>>
    ELSE IF IsRegisteredName(SubSeq(model_id, 1, k - 1))
         THEN <<model_id[1], SubSeq(model_id, k + 1, Len(model_id))>>
         ELSE <<"openrouter", model_id>>

\* ProviderRegistry.parse_model_identifier: <<provider_name, model_name>>
parse_model_identifier(model_id) ==
    LET parts == Split1(model_id) IN
    IF Len(parts) = 1 THEN <<"copilot", model_id>>
    ELSE IF IsRegisteredName(parts[1])
         THEN <<parts[1][1], parts[2]>>
         ELSE <<"openrouter", model_id>>

NoCall == [mode |-> "idle", model_ids |-> <<>>, timeout |-> 0, delay |-> 0]

\* Python's None as a query response
NoneResponse == [ok |-> FALSE, task |-> 0, id |-> <<>>]

\* the response dict of a query that succeeded: which query it answers
OkResponse(i) == [ok |-> TRUE, task |-> i, id |-> call.model_ids[i]]

Tasks == 1..Len(call.model_ids)

RegistryInitWith(keys) ==
    /\ providers = [n \in {"openrouter", "copilot"} |->
                       IF n = "openrouter" THEN "OpenRouterProvider" ELSE "CopilotProvider"]
    /\ api_key \in keys
    /\ call = NoCall
    /\ tstate = <<>>
    /\ responses = <<>>
    /\ invocations = <<>>
    /\ result = <<>>
    /\ returned = FALSE
    /\ events = <<>>

\* the registry as constructed: the two default providers, OPENROUTER_API_KEY
\* set or not
RegistryInit == RegistryInitWith(BOOLEAN)

\* no parse call yet; parse_arg is the identifier the calls will be made with
ParseInitWith(ids) ==
    /\ parse_arg \in ids
    /\ parse_ret = <<>>
    /\ parse_seq = 0
    /\ parse_names = {}

\* ProviderRegistry.register
Register(p) ==
    /\ providers' = [n \in DOMAIN providers \cup {p.name} |->
                        IF n = p.name THEN p.kind ELSE providers[n]]
    /\ UNCHANGED <<api_key, call, tstate, responses,
                   invocations, result, returned, events>>
    /\ UNCHANGED <<streamVars, parseVars, copilotVars>>

ParseInit == ParseInitWith(Identifiers)

\* a call of parse_model_identifier(parse_arg)
ParseCall ==
    /\ parse_arg' = parse_arg
    /\ parse_ret' = parse_model_identifier(parse_arg)
    /\ parse_seq' = IF parse_seq = 1 THEN 2 ELSE 1
    /\ parse_names' = DOMAIN providers
    /\ UNCHANGED registryVars
    /\ UNCHANGED <<streamVars, copilotVars>>

\* the model_ids lists of the fan-out calls: at most MaxModels identifiers,
\* repetitions allowed
ModelIdLists == {<<>>} \cup SeqsUpTo(CouncilIds, MaxModels)

Range(s) == {s[i] : i \in 1..Len(s)}

LastIndex(s, x) == CHOOSE i \in 1..Len(s) : s[i] = x /\ \A j \in (i + 1)..Len(s) : s[j] # x

\* d[k] = v on a Python dict
DictSet(d, k, v) == [x \in DOMAIN d \cup {k} |-> IF x = k THEN v ELSE d[x]]

Event(kind, arg) == [kind |-> kind, arg |-> arg]

AnyDone == \E i \in Tasks : tstate[i] = "done"

\* asyncio.gather(*tasks) returns once every task has finished
AllDone == \A i \in Tasks : tstate[i] = "done"

GatherResultFailFast ==
    [id \in Range(call.model_ids) |->
        IF \E i \in Tasks : ~responses[i].ok
        THEN NoneResponse
        ELSE responses[LastIndex(call.model_ids, id)]]

\* {model_id: response for model_id, response in zip(model_ids, responses)}
GatherResult ==
    [id \in Range(call.model_ids) |-> responses[LastIndex(call.model_ids, id)]]

NeedsSleepAlways(i) == TRUE

\* if i > 0: await asyncio.sleep(delay)      (i counts from 0 in the code)
NeedsSleep(i) == i > 1

ShortCircuitUnknownOnly(name, available) == name \notin DOMAIN providers

\* query_model returns None before calling the provider:
\* provider is None, or not provider.is_available()
ShortCircuit(name, available) == name \notin DOMAIN providers \/ ~available

\* await provider.query_model(model_name, messages, timeout)
Invocation(name, model, timeout) ==
    [provider |-> name, kind |-> providers[name], model |-> model, timeout |-> timeout]

\* sequential fan-out: the query the loop is at (all earlier ones are done)
SeqCurrent(i) ==
    /\ i \in Tasks
    /\ tstate[i] = "created"
    /\ \A j \in 1..(i - 1) : tstate[j] = "done"

LastIsSleep == Len(events) > 0 /\ Last(events).kind = "sleep"

\* a caller starts query_model, query_models_parallel or query_models_sequential
StartCall(mode, ids, timeout, delay) ==
    /\ call.mode = "idle"
    /\ call' = [mode |-> mode, model_ids |-> ids, timeout |-> timeout, delay |-> delay]
    /\ tstate' = [i \in 1..Len(ids) |-> "created"]
    /\ responses' = [i \in 1..Len(ids) |-> NoneResponse]
    /\ invocations' = [i \in 1..Len(ids) |-> <<>>]
    /\ result' = <<>>
    /\ returned' = FALSE
    /\ events' = <<>>
    /\ UNCHANGED <<providers, api_key>>
    /\ UNCHANGED <<streamVars, parseVars, copilotVars>>

StartSingle ==
    \E id \in CouncilIds, t \in Timeouts : StartCall("single", <<id>>, t, 0)

StartParallel ==
    \E ids \in ModelIdLists, t \in Timeouts : StartCall("parallel", ids, t, 0)

StartSequential ==
    \E ids \in ModelIdLists, t \in Timeouts, d \in Delays :
        StartCall("sequential", ids, t, d)

\* query_models_sequential: await asyncio.sleep(delay) before a query
SeqSleep(i) ==
    /\ call.mode = "sequential"
    /\ SeqCurrent(i)
    /\ NeedsSleep(i)
    /\ ~LastIsSleep
    /\ events' = Append(events, Event("sleep", call.delay))
    /\ UNCHANGED <<providers, api_key, call, tstate, responses,
                   invocations, result, returned>>
    /\ UNCHANGED <<streamVars, parseVars, copilotVars>>

\* ProviderRegistry.query_model up to its await: parse, resolve, check
\* availability, then either return None or call the provider
TaskStart(i) ==
    /\ i \in Tasks
    /\ tstate[i] = "created"
    /\ call.mode = "sequential" => SeqCurrent(i) /\ (NeedsSleep(i) => LastIsSleep)
    /\ LET parsed == parse_model_identifier(call.model_ids[i])
           name == parsed[1]
           model_name == parsed[2]
       IN \E available \in (IF name \in DOMAIN providers THEN IsAvailable(name) ELSE {FALSE}) :
          IF ShortCircuit(name, available)
          THEN /\ tstate' = [tstate EXCEPT ![i] = "done"]
               /\ responses' = [responses EXCEPT ![i] = NoneResponse]
               /\ UNCHANGED invocations
               /\ IF call.mode = "sequential"
                  THEN /\ events' = events \o <<Event("call", i), Event("return", i)>>
                       /\ result' = DictSet(result, call.model_ids[i], NoneResponse)
                  ELSE UNCHANGED <<events, result>>
          ELSE /\ tstate' = [tstate EXCEPT ![i] = "awaiting"]
               /\ invocations' = [invocations EXCEPT ![i] =
                                     Append(@, Invocation(name, model_name, call.timeout))]
               /\ UNCHANGED <<responses, result>>
               /\ IF call.mode = "sequential"
                  THEN events' = Append(events, Event("call", i))
                  ELSE UNCHANGED events
    /\ UNCHANGED <<providers, api_key, call, returned>>
    /\ UNCHANGED <<streamVars, parseVars, copilotVars>>

\* the provider's query_model returns its response dict, or None when it failed
ProviderReturn(i) ==
    /\ i \in Tasks
    /\ tstate[i] = "awaiting"
    /\ \E ok \in BOOLEAN :
         LET response == IF ok THEN OkResponse(i) ELSE NoneResponse IN
         /\ responses' = [responses EXCEPT ![i] = response]
         /\ IF call.mode = "sequential"
            THEN /\ events' = Append(events, Event("return", i))
                 /\ result' = DictSet(result, call.model_ids[i], response)
            ELSE UNCHANGED <<events, result>>
    /\ tstate' = [tstate EXCEPT ![i] = "done"]
    /\ UNCHANGED <<providers, api_key, call, invocations, returned>>
    /\ UNCHANGED <<streamVars, parseVars, copilotVars>>

\* query_models_parallel: gather is through, build and return the mapping
GatherReturn ==
    /\ call.mode = "parallel"
    /\ ~returned
    /\ AllDone
    /\ result' = GatherResult
    /\ returned' = TRUE
    /\ UNCHANGED <<providers, api_key, call, tstate, responses,
                   invocations, events>>
    /\ UNCHANGED <<streamVars, parseVars, copilotVars>>

\* query_models_sequential: the loop is through, return responses;
\* query_model: return what the provider returned
PlainReturn ==
    /\ call.mode \in {"sequential", "single"}
    /\ ~returned
    /\ AllDone
    /\ returned' = TRUE
    /\ UNCHANGED <<providers, api_key, call, tstate, responses,
                   invocations, result, events>>
    /\ UNCHANGED <<streamVars, parseVars, copilotVars>>

\* the caller is done with the returned value
CallReset ==
    /\ returned
    /\ call' = NoCall
    /\ tstate' = <<>>
    /\ responses' = <<>>
    /\ invocations' = <<>>
    /\ result' = <<>>
    /\ returned' = FALSE
    /\ events' = <<>>
    /\ UNCHANGED <<providers, api_key>>
    /\ UNCHANGED <<streamVars, parseVars, copilotVars>>

(***************************************************************************)
(* The Copilot service: the API-token cache (backend/copilot.py).          *)
(***************************************************************************)
Callers == 1..NumCallers

\* self._api_token_expires = time.time() + 25 * 60
CacheSeconds == 25 * 60

\* by how much the clock advances in one step
TickSteps == {1, CacheSeconds - 1, CacheSeconds}

\* Python's None among the strings
None == "None"

\* not x, for a string or None
Falsy(x) == x \in {None, ""}

\* no ciphertext held
NoCipher == <<"none">>

CopilotInitWith(files) ==
    /\ key_file \in {0, 1}
    /\ keys_generated = key_file
    /\ token_file \in files
    /\ (token_file = NoFile) <=> (key_file = 0)
    /\ rt_plain = <<>>
    /\ rt_cipher = NoCipher
    /\ rt_tampered = FALSE
    /\ rt_out = <<>>
    /\ cached_api_token = 0
    /\ api_token_expires = 0
    /\ now = 0
    /\ ticks = 0
    /\ exchange_count = 0
    /\ tpc = [c \in Callers |-> "idle"]
    /\ taccess = [c \in Callers |-> None]
    /\ tret = [c \in Callers |-> 0]
    /\ texchanges = [c \in Callers |-> <<>>]
    /\ toutcome = [c \in Callers |-> ""]
    /\ qpc = [c \in Callers |-> "idle"]
    /\ qtoken = [c \in Callers |-> 0]
    /\ completions = [c \in Callers |-> <<>>]
    /\ qoutcome = [c \in Callers |-> ""]
    /\ qret = [c \in Callers |-> ""]
    /\ dpc = "idle"
    /\ ppc = "idle"
    /\ poll_args = [interval |-> 0, max_attempts |-> 0]
    /\ interval = 0
    /\ attempt = 0
    /\ plog = <<>>
    /\ pret = ""

\* at start-up the token file is absent, holds an encrypted access token, or
\* holds something that does not decrypt
CopilotInit == CopilotInitWith({NoFile, encrypt_token("gho_token"), Tampered})

\* CopilotService.get_stored_access_token
get_stored_access_token ==
    IF token_file = NoFile THEN None
    ELSE IF decrypt_token(token_file).ok THEN decrypt_token(token_file).plain
    ELSE None

CacheValidInclusive == cached_api_token # 0 /\ now <= api_token_expires

\* self._cached_api_token and time.time() < self._api_token_expires
CacheValid == cached_api_token # 0 /\ now < api_token_expires

CacheAfterClearing(outcome, id) ==
    CASE outcome = "token" -> <<id, now + CacheSeconds>>
      [] outcome = "no_token" -> <<0, now + CacheSeconds>>
      [] OTHER -> <<0, 0>>

\* the cache after an exchange request ended: an exception leaves it as it
\* was; a JSON body sets it to data.get("token") and now + 25 minutes
CacheAfter(outcome, id) ==
    CASE outcome = "token" -> <<id, now + CacheSeconds>>
      [] outcome = "no_token" -> <<0, now + CacheSeconds>>
      [] OTHER -> <<cached_api_token, api_token_expires>>

\* get_copilot_api_token up to its await: return the cached token, return
\* None without a stored access token, or send the exchange request
GetTokenCall(c) ==
    /\ tpc[c] = "idle"
    /\ IF CacheValid
       THEN /\ tret' = [tret EXCEPT ![c] = cached_api_token]
            /\ tpc' = [tpc EXCEPT ![c] = "returned"]
            /\ toutcome' = [toutcome EXCEPT ![c] = "cache"]
            /\ UNCHANGED <<taccess, texchanges, exchange_count>>
       ELSE IF Falsy(get_stored_access_token)
            THEN /\ tret' = [tret EXCEPT ![c] = 0]
                 /\ tpc' = [tpc EXCEPT ![c] = "returned"]
                 /\ toutcome' = [toutcome EXCEPT ![c] = "unauthenticated"]
                 /\ UNCHANGED <<taccess, texchanges, exchange_count>>
            ELSE /\ exchange_count < MaxExchanges
                 /\ exchange_count' = exchange_count + 1
                 /\ taccess' = [taccess EXCEPT ![c] = get_stored_access_token]
                 /\ texchanges' = [texchanges EXCEPT ![c] = Append(@, exchange_count + 1)]
                 /\ tpc' = [tpc EXCEPT ![c] = "exchanging"]
                 /\ UNCHANGED <<tret, toutcome>>
    /\ IF ~CacheValid /\ token_file # NoFile THEN UseKey ELSE UNCHANGED keyVars
    /\ UNCHANGED <<token_file, cached_api_token, api_token_expires, now, ticks>>

\* a call of get_copilot_api_token made on its own
GetTokenStart(c) ==
    /\ qpc[c] = "idle"
    /\ GetTokenCall(c)
    /\ UNCHANGED <<queryVars, pollVars>>
    /\ UNCHANGED cryptoVars
    /\ UNCHANGED <<streamVars, registryVars, parseVars>>

\* the exchange request ends: an exception (transport error, HTTP error
\* status, a body that is not a JSON object), a body with a token, or a body
\* without one
ExchangeEnd(c) ==
    /\ tpc[c] = "exchanging"
    /\ \E outcome \in {"error", "token", "no_token"} :
         LET id == Last(texchanges[c])
             cache == CacheAfter(outcome, id)
         IN /\ cached_api_token' = cache[1]
            /\ api_token_expires' = cache[2]
            /\ tret' = [tret EXCEPT ![c] = IF outcome = "token" THEN id ELSE 0]
            /\ toutcome' = [toutcome EXCEPT ![c] = outcome]
    /\ tpc' = [tpc EXCEPT ![c] = "returned"]
    /\ UNCHANGED <<token_file, now, ticks, exchange_count, taccess, texchanges>>

\* the exchange request of a call made on its own ends
ExchangeReturn(c) ==
    /\ qpc[c] = "idle"
    /\ ExchangeEnd(c)
    /\ UNCHANGED <<queryVars, pollVars>>
    /\ UNCHANGED <<keyVars, cryptoVars>>
    /\ UNCHANGED <<streamVars, registryVars, parseVars>>

\* the caller is done with the returned token
CallerReset(c) ==
    /\ qpc[c] = "idle"
    /\ tpc[c] = "returned"
    /\ tpc' = [tpc EXCEPT ![c] = "idle"]
    /\ taccess' = [taccess EXCEPT ![c] = None]
    /\ tret' = [tret EXCEPT ![c] = 0]
    /\ texchanges' = [texchanges EXCEPT ![c] = <<>>]
    /\ toutcome' = [toutcome EXCEPT ![c] = ""]
    /\ UNCHANGED <<token_file, cached_api_token, api_token_expires, now, ticks,
                   exchange_count>>
    /\ UNCHANGED <<queryVars, pollVars>>
    /\ UNCHANGED <<keyVars, cryptoVars>>
    /\ UNCHANGED <<streamVars, registryVars, parseVars>>

\* time passes
Tick(d) ==
    /\ ticks < MaxTicks
    /\ ticks' = ticks + 1
    /\ now' = now + d
    /\ UNCHANGED <<token_file, cached_api_token, api_token_expires, exchange_count,
                   tpc, taccess, tret, texchanges, toutcome>>
    /\ UNCHANGED <<queryVars, pollVars>>
    /\ UNCHANGED <<keyVars, cryptoVars>>
    /\ UNCHANGED <<streamVars, registryVars, parseVars>>

\* CopilotService.clear_token (POST /api/copilot/logout)
ClearToken ==
    /\ token_file' = NoFile
    /\ cached_api_token' = 0
    /\ api_token_expires' = 0
    /\ UNCHANGED <<now, ticks, exchange_count, tpc, taccess, tret, texchanges, toutcome>>
    /\ UNCHANGED <<queryVars, pollVars>>
    /\ UNCHANGED <<keyVars, cryptoVars>>
    /\ UNCHANGED <<streamVars, registryVars, parseVars>>

\* CopilotService.save_access_token (the end of a successful device flow)
SaveAccessToken(token) ==
    /\ token_file' = encrypt_token(token)
    /\ UseKey
    /\ UNCHANGED <<cached_api_token, api_token_expires, now, ticks, exchange_count,
                   tpc, taccess, tret, texchanges, toutcome>>
    /\ UNCHANGED <<queryVars, pollVars>>
    /\ UNCHANGED cryptoVars
    /\ UNCHANGED <<streamVars, registryVars, parseVars>>

(***************************************************************************)
(* encrypt_token and decrypt_token, called on arbitrary strings.           *)
(***************************************************************************)
\* the non-empty strings handed to encrypt_token
Plaintexts == SeqsUpTo({"g", "h"}, MaxLen)

\* what a ciphertext can be turned into behind the program's back: bytes that
\* are no Fernet token, a token whose payload was altered (its HMAC no longer
\* fits), a token made under another key
Alterations(cipher) ==
    {<<"garbage">>, <<"altered", cipher[2], cipher[3]>>,
     <<"fernet", cipher[2], cipher[3] + 1>>}

\* encrypt_token(s)
EncryptCall(s) ==
    /\ rt_plain' = s
    /\ rt_cipher' = encrypt_token(s)
    /\ rt_tampered' = FALSE
    /\ rt_out' = <<>>
    /\ UseKey
    /\ UNCHANGED <<token_file, cached_api_token, api_token_expires, now, ticks,
                   exchange_count, tpc, taccess, tret, texchanges, toutcome>>
    /\ UNCHANGED <<queryVars, pollVars>>
    /\ UNCHANGED <<streamVars, registryVars, parseVars>>

\* the ciphertext is altered where it is kept
TamperCipher ==
    /\ rt_cipher # NoCipher
    /\ ~rt_tampered
    /\ rt_cipher' \in Alterations(rt_cipher)
    /\ rt_tampered' = TRUE
    /\ rt_out' = <<>>
    /\ UNCHANGED <<rt_plain, keyVars>>
    /\ UNCHANGED <<token_file, cached_api_token, api_token_expires, now, ticks,
                   exchange_count, tpc, taccess, tret, texchanges, toutcome>>
    /\ UNCHANGED <<queryVars, pollVars>>
    /\ UNCHANGED <<streamVars, registryVars, parseVars>>

\* decrypt_token(ciphertext)
DecryptCall ==
    /\ rt_cipher # NoCipher
    /\ rt_out = <<>>
    /\ rt_out' = <<decrypt_token(rt_cipher)>>
    /\ UseKey
    /\ UNCHANGED <<rt_plain, rt_cipher, rt_tampered>>
    /\ UNCHANGED <<token_file, cached_api_token, api_token_expires, now, ticks,
                   exchange_count, tpc, taccess, tret, texchanges, toutcome>>
    /\ UNCHANGED <<queryVars, pollVars>>
    /\ UNCHANGED <<streamVars, registryVars, parseVars>>

(***************************************************************************)
(* CopilotService.query_model.                                             *)
(***************************************************************************)
\* how a completion request can end: a 200 answer with choices, an HTTP error
\* status (raise_for_status), a payload without choices[0].message, a timeout
CompletionOutcomes == {"ok", "http_error", "malformed", "timeout"}

NoApiTokenNever(api_token) == FALSE

\* if not api_token
NoApiToken(api_token) == api_token = 0

\* query_model from the return of get_copilot_api_token to its next await:
\* return None without a token, else send the completion request
QueryContinue(c, api_token) ==
    /\ qtoken' = [qtoken EXCEPT ![c] = api_token]
    /\ IF NoApiToken(api_token)
       THEN /\ qret' = [qret EXCEPT ![c] = None]
            /\ qpc' = [qpc EXCEPT ![c] = "returned"]
            /\ UNCHANGED completions
       ELSE /\ completions' = [completions EXCEPT ![c] = Append(@, api_token)]
            /\ qpc' = [qpc EXCEPT ![c] = "posting"]
            /\ UNCHANGED qret
    /\ UNCHANGED qoutcome

\* query_model up to its first suspension: inside get_copilot_api_token when
\* that sends an exchange request, else as QueryContinue says
QueryStart(c) ==
    /\ qpc[c] = "idle"
    /\ GetTokenCall(c)
    /\ IF tpc'[c] = "returned"
       THEN QueryContinue(c, tret'[c])
       ELSE /\ qpc' = [qpc EXCEPT ![c] = "token"]
            /\ UNCHANGED <<qtoken, completions, qoutcome, qret>>
    /\ UNCHANGED pollVars
    /\ UNCHANGED cryptoVars
    /\ UNCHANGED <<streamVars, registryVars, parseVars>>

\* the exchange request of a query's get_copilot_api_token ends, and
\* query_model runs on to its next suspension
QueryExchangeReturn(c) ==
    /\ qpc[c] = "token"
    /\ ExchangeEnd(c)
    /\ QueryContinue(c, tret'[c])
    /\ UNCHANGED pollVars
    /\ UNCHANGED <<keyVars, cryptoVars>>
    /\ UNCHANGED <<streamVars, registryVars, parseVars>>

\* the dict built from the answer, or None from the except clause
CompletionResult(outcome) == IF outcome = "ok" THEN "response" ELSE None

\* the completion request ends
CompletionReturn(c) ==
    /\ qpc[c] = "posting"
    /\ \E outcome \in CompletionOutcomes :
         /\ qoutcome' = [qoutcome EXCEPT ![c] = outcome]
         /\ qret' = [qret EXCEPT ![c] = CompletionResult(outcome)]
    /\ qpc' = [qpc EXCEPT ![c] = "returned"]
    /\ UNCHANGED <<qtoken, completions>>
    /\ UNCHANGED <<token_file, cached_api_token, api_token_expires, now, ticks,
                   exchange_count, tpc, taccess, tret, texchanges, toutcome>>
    /\ UNCHANGED pollVars
    /\ UNCHANGED <<keyVars, cryptoVars>>
    /\ UNCHANGED <<streamVars, registryVars, parseVars>>

\* the caller is done with the result of query_model
QueryReset(c) ==
    /\ qpc[c] = "returned"
    /\ qpc' = [qpc EXCEPT ![c] = "idle"]
    /\ qtoken' = [qtoken EXCEPT ![c] = 0]
    /\ completions' = [completions EXCEPT ![c] = <<>>]
    /\ qoutcome' = [qoutcome EXCEPT ![c] = ""]
    /\ qret' = [qret EXCEPT ![c] = ""]
    /\ tpc' = [tpc EXCEPT ![c] = "idle"]
    /\ taccess' = [taccess EXCEPT ![c] = None]
    /\ tret' = [tret EXCEPT ![c] = 0]
    /\ texchanges' = [texchanges EXCEPT ![c] = <<>>]
    /\ toutcome' = [toutcome EXCEPT ![c] = ""]
    /\ UNCHANGED <<token_file, cached_api_token, api_token_expires, now, ticks,
                   exchange_count>>
    /\ UNCHANGED pollVars
    /\ UNCHANGED <<keyVars, cryptoVars>>
    /\ UNCHANGED <<streamVars, registryVars, parseVars>>

(***************************************************************************)
(* The device flow: get_device_code and poll_for_access_token.             *)
(***************************************************************************)
\* the interval values a poll is started with (POST /api/copilot/token: 5)
Intervals == {1, 5}

\* interval += 5
SlowDownIncrement == 5

\* the access token a completed device flow hands out
PolledTokens == {"gho_polled"}

\* what the token endpoint can answer: an access token, one of the four
\* errors the loop names, another error, or a body with neither
PollResponses == {"access_token", "authorization_pending", "slow_down",
                  "expired_token", "access_denied", "unsupported_grant_type",
                  "no_error"}

\* the answers, and the request (or response.json()) raising
PollOutcomes == PollResponses \cup {"exception"}

NextIntervalAlways(iv, response) == iv + SlowDownIncrement

NextIntervalDoubled(iv, response) ==
    IF response = "slow_down" THEN iv + 2 * SlowDownIncrement ELSE iv

\* elif error == "slow_down": interval += 5
NextInterval(iv, response) ==
    IF response = "slow_down" THEN iv + SlowDownIncrement ELSE iv

StopsPollingOnExpiryOnly(response) == response = "expired_token"

\* elif error == "expired_token": return None / "access_denied": return None
StopsPolling(response) == response \in {"expired_token", "access_denied"}

HasAttemptsLeftInclusive(a, m) == a + 1 <= m

\* for attempt in range(max_attempts): is there an iteration after attempt a
HasAttemptsLeft(a, m) == a + 1 < m

FileAfterPollKept(file, token) == file

FileAfterPollCleared(file, token) == NoFile

\* self.save_access_token(access_token)
FileAfterPoll(file, token) == encrypt_token(token)

\* get_device_code up to its await
GetDeviceCodeStart ==
    /\ dpc = "idle"
    /\ dpc' = "awaiting"
    /\ UNCHANGED <<ppc, poll_args, interval, attempt, plog, pret>>
    /\ UNCHANGED <<token_file, cached_api_token, api_token_expires, now, ticks,
                   exchange_count, tpc, taccess, tret, texchanges, toutcome>>
    /\ UNCHANGED queryVars
    /\ UNCHANGED <<keyVars, cryptoVars>>
    /\ UNCHANGED <<streamVars, registryVars, parseVars>>

\* get_device_code: the request ends; raise_for_status / response.json()
GetDeviceCodeReturn ==
    /\ dpc = "awaiting"
    /\ \E ok \in BOOLEAN : dpc' = IF ok THEN "returned" ELSE "raised"
    /\ UNCHANGED <<ppc, poll_args, interval, attempt, plog, pret>>
    /\ UNCHANGED <<token_file, cached_api_token, api_token_expires, now, ticks,
                   exchange_count, tpc, taccess, tret, texchanges, toutcome>>
    /\ UNCHANGED queryVars
    /\ UNCHANGED <<keyVars, cryptoVars>>
    /\ UNCHANGED <<streamVars, registryVars, parseVars>>

\* the caller is done with the device code (or with the HTTP 500)
GetDeviceCodeReset ==
    /\ dpc \in {"returned", "raised"}
    /\ dpc' = "idle"
    /\ UNCHANGED <<ppc, poll_args, interval, attempt, plog, pret>>
    /\ UNCHANGED <<token_file, cached_api_token, api_token_expires, now, ticks,
                   exchange_count, tpc, taccess, tret, texchanges, toutcome>>
    /\ UNCHANGED queryVars
    /\ UNCHANGED <<keyVars, cryptoVars>>
    /\ UNCHANGED <<streamVars, registryVars, parseVars>>

\* poll_for_access_token up to its first await: the sleep of the first
\* iteration, or return None when range(max_attempts) is empty
PollStart(iv, m) ==
    /\ ppc = "idle"
    /\ poll_args' = [interval |-> iv, max_attempts |-> m]
    /\ interval' = iv
    /\ attempt' = 0
    /\ IF m > 0
       THEN /\ ppc' = "sleeping"
            /\ plog' = <<Event("sleep", iv)>>
            /\ pret' = ""
       ELSE /\ ppc' = "returned"
            /\ plog' = <<>>
            /\ pret' = None
    /\ UNCHANGED dpc
    /\ UNCHANGED <<token_file, cached_api_token, api_token_expires, now, ticks,
                   exchange_count, tpc, taccess, tret, texchanges, toutcome>>
    /\ UNCHANGED queryVars
    /\ UNCHANGED <<keyVars, cryptoVars>>
    /\ UNCHANGED <<streamVars, registryVars, parseVars>>

\* the sleep is over: send the token-endpoint request and await its answer
PollSleepDone ==
    /\ ppc = "sleeping"
    /\ ppc' = "posting"
    /\ plog' = Append(plog, Event("post", attempt))
    /\ UNCHANGED <<dpc, poll_args, interval, attempt, pret>>
    /\ UNCHANGED <<token_file, cached_api_token, api_token_expires, now, ticks,
                   exchange_count, tpc, taccess, tret, texchanges, toutcome>>
    /\ UNCHANGED queryVars
    /\ UNCHANGED <<keyVars, cryptoVars>>
    /\ UNCHANGED <<streamVars, registryVars, parseVars>>

\* the token endpoint answers (or the request raises): save and return the
\* token, return None, or go round the loop to the next sleep
PollResponse(response) ==
    /\ ppc = "posting"
    /\ LET answered == Append(plog, Event("response", response)) IN
       CASE response = "exception" ->
                /\ ppc' = "raised"
                /\ plog' = plog
                /\ pret' = "raised"
                /\ UNCHANGED <<token_file, interval, attempt, keyVars>>
         [] response = "access_token" ->
                \E token \in PolledTokens :
                    /\ token_file' = FileAfterPoll(token_file, token)
                    /\ UseKey
                    /\ plog' = Append(answered, Event("save", token))
                    /\ pret' = token
                    /\ ppc' = "returned"
                    /\ UNCHANGED <<interval, attempt>>
         [] StopsPolling(response) ->
                /\ ppc' = "returned"
                /\ plog' = answered
                /\ pret' = None
                /\ UNCHANGED <<token_file, interval, attempt, keyVars>>
         [] OTHER ->
                /\ interval' = NextInterval(interval, response)
                /\ IF HasAttemptsLeft(attempt, poll_args.max_attempts)
                   THEN /\ attempt' = attempt + 1
                        /\ ppc' = "sleeping"
                        /\ plog' = Append(answered, Event("sleep", interval'))
                        /\ pret' = ""
                   ELSE /\ ppc' = "returned"
                        /\ plog' = answered
                        /\ pret' = None
                        /\ UNCHANGED attempt
                /\ UNCHANGED <<token_file, keyVars>>
    /\ UNCHANGED <<dpc, poll_args>>
    /\ UNCHANGED <<cached_api_token, api_token_expires, now, ticks,
                   exchange_count, tpc, taccess, tret, texchanges, toutcome>>
    /\ UNCHANGED queryVars
    /\ UNCHANGED cryptoVars
    /\ UNCHANGED <<streamVars, registryVars, parseVars>>

\* copilot_poll_token has answered; the next poll can start
PollReset ==
    /\ ppc \in {"returned", "raised"}
    /\ ppc' = "idle"
    /\ poll_args' = [interval |-> 0, max_attempts |-> 0]
    /\ interval' = 0
    /\ attempt' = 0
    /\ plog' = <<>>
    /\ pret' = ""
    /\ UNCHANGED dpc
    /\ UNCHANGED <<token_file, cached_api_token, api_token_expires, now, ticks,
                   exchange_count, tpc, taccess, tret, texchanges, toutcome>>
    /\ UNCHANGED queryVars
    /\ UNCHANGED <<keyVars, cryptoVars>>
    /\ UNCHANGED <<streamVars, registryVars, parseVars>>

(***************************************************************************)
(* The specifications.                                                     *)
(***************************************************************************)
StreamNext ==
    \E r \in Requests :
        \/ SendMessageStream(r)
        \/ GenStart(r)
        \/ CallStage(r)
        \/ Stage1Return(r)
        \/ NextStageStart(r)
        \/ Stage2Return(r)
        \/ Stage3Return(r)
        \/ AfterStage3(r)
        \/ TitleTaskRun(r)
        \/ AwaitTitle(r)
        \/ AfterTitle(r)
        \/ GenReturn(r)

\* one conversation, streamed to by concurrent requests
InitStream ==
    /\ StreamInit
    /\ RegistryInitWith({TRUE})
    /\ ParseInitWith({<<"gpt">>})
    /\ CopilotInitWith({NoFile})

SpecStream == InitStream /\ [][StreamNext]_vars

RegistryNext ==
    \/ \E p \in ProviderObjects : Register(p)
    \/ \E t \in AccessTokens : SaveAccessToken(t)
    \/ ClearToken
    \/ StartSingle
    \/ StartParallel
    \/ StartSequential
    \/ \E i \in 1..MaxModels : SeqSleep(i)
    \/ \E i \in 1..MaxModels : TaskStart(i)
    \/ \E i \in 1..MaxModels : ProviderReturn(i)
    \/ GatherReturn
    \/ PlainReturn
    \/ CallReset

\* one caller of the registry at a time, while providers are registered and
\* the installation logs in and out
InitRegistry ==
    /\ StreamInitWith({<<>>})
    /\ RegistryInit
    /\ ParseInitWith({<<"gpt">>})
    /\ CopilotInitWith({NoFile, encrypt_token("gho_token")})

SpecRegistry == InitRegistry /\ [][RegistryNext]_vars

ParseNext ==
    \/ ParseCall
    \/ \E p \in ProviderObjects : Register(p)
    \/ \E t \in AccessTokens : SaveAccessToken(t)
    \/ ClearToken
    \/ StartSingle
    \/ TaskStart(1)
    \/ ProviderReturn(1)
    \/ PlainReturn
    \/ CallReset

\* parse_model_identifier called again and again, between registrations,
\* single queries, logins and logouts
InitParse ==
    /\ StreamInitWith({<<>>})
    /\ RegistryInit
    /\ ParseInit
    /\ CopilotInitWith({NoFile, encrypt_token("gho_token")})

SpecParse == InitParse /\ [][ParseNext]_vars

TokenNext ==
    \/ \E c \in Callers : GetTokenStart(c)
    \/ \E c \in Callers : ExchangeReturn(c)
    \/ \E c \in Callers : CallerReset(c)
    \/ \E d \in TickSteps : Tick(d)
    \/ \E t \in AccessTokens : SaveAccessToken(t)
    \/ ClearToken

\* concurrent calls of get_copilot_api_token while time passes and the
\* installation logs in and out
InitToken ==
    /\ StreamInitWith({<<>>})
    /\ RegistryInitWith({TRUE})
    /\ ParseInitWith({<<"gpt">>})
    /\ CopilotInit

SpecToken == InitToken /\ [][TokenNext]_vars

QueryNext ==
    \/ \E c \in Callers : QueryStart(c)
    \/ \E c \in Callers : QueryExchangeReturn(c)
    \/ \E c \in Callers : CompletionReturn(c)
    \/ \E c \in Callers : QueryReset(c)
    \/ \E c \in Callers : GetTokenStart(c)
    \/ \E c \in Callers : ExchangeReturn(c)
    \/ \E c \in Callers : CallerReset(c)
    \/ \E t \in AccessTokens : SaveAccessToken(t)
    \/ ClearToken

\* concurrent calls of query_model and get_copilot_api_token while the
\* installation logs in and out, within the lifetime of one cached token
InitQuery ==
    /\ StreamInitWith({<<>>})
    /\ RegistryInitWith({TRUE})
    /\ ParseInitWith({<<"gpt">>})
    /\ CopilotInit

SpecQuery == InitQuery /\ [][QueryNext]_vars

PollNext ==
    \/ \E iv \in Intervals, m \in 0..MaxAttempts : PollStart(iv, m)
    \/ PollSleepDone
    \/ \E response \in PollOutcomes : PollResponse(response)
    \/ PollReset
    \/ ClearToken

\* one poll_for_access_token call at a time, against every behaviour of the
\* token endpoint, while the installation may be logged out
InitPoll ==
    /\ StreamInitWith({<<>>})
    /\ RegistryInitWith({TRUE})
    /\ ParseInitWith({<<"gpt">>})
    /\ CopilotInit

SpecPoll == InitPoll /\ [][PollNext]_vars

KeyNext ==
    \/ \E s \in Plaintexts : EncryptCall(s)
    \/ TamperCipher
    \/ DecryptCall
    \/ \E t \in AccessTokens : SaveAccessToken(t)
    \/ ClearToken
    \/ GetTokenStart(1)
    \/ ExchangeReturn(1)
    \/ CallerReset(1)

\* encrypt_token and decrypt_token called on arbitrary strings while the
\* installation logs in and out and reads its stored token
InitKey ==
    /\ StreamInitWith({<<>>})
    /\ RegistryInitWith({TRUE})
    /\ ParseInitWith({<<"gpt">>})
    /\ CopilotInit

SpecKey == InitKey /\ [][KeyNext]_vars

AuthNext ==
    \/ GetDeviceCodeStart
    \/ GetDeviceCodeReturn
    \/ GetDeviceCodeReset
    \/ \E m \in 0..MaxAttempts : PollStart(5, m)
    \/ PollSleepDone
    \/ \E response \in PollOutcomes : PollResponse(response)
    \/ PollReset
    \/ ClearToken
    \/ QueryStart(1)
    \/ QueryExchangeReturn(1)
    \/ CompletionReturn(1)
    \/ QueryReset(1)

\* every operation of the Copilot service: the device flow as the endpoints
\* run it, logout, and a caller of query_model (get_copilot_api_token within)
InitAuth ==
    /\ StreamInitWith({<<>>})
    /\ RegistryInitWith({TRUE})
    /\ ParseInitWith({<<"gpt">>})
    /\ CopilotInit

SpecAuth == InitAuth /\ [][AuthNext]_vars

\* asyncio.sleep ends, and the token-endpoint request ends (with an answer,
\* or with the exception httpx raises at its timeout)
PollFairness ==
    /\ WF_vars(PollSleepDone)
    /\ WF_vars(\E response \in PollOutcomes : PollResponse(response))

SpecPollLive == SpecPoll /\ PollFairness

(***************************************************************************)
(* Claims about the streaming orchestrator.                                *)
(***************************************************************************)
\* the frame types of a turn in which no step fails
NormalOrder(first) ==
    <<"stage1_start", "stage1_complete", "stage2_start", "stage2_complete",
      "stage3_start", "stage3_complete">>
    \o (IF first THEN <<"title_complete">> ELSE <<>>)
    \o <<"complete">>

\* C1: in a stream where no step has failed the frames emitted so far are a
\* prefix of stage1_start, stage1_complete, stage2_start, stage2_complete,
\* stage3_start, stage3_complete, [title_complete iff the conversation was
\* empty when the request arrived], complete; once complete is emitted the
\* frames are exactly that sequence, and they stay so when the generator ends
\* (no type twice, nothing after complete).
C1_FrameOrder ==
    \A r \in Requests :
        LET ts == Types(frames[r])
            order == NormalOrder(is_first_message[r])
        IN
        raised[r] = "" =>
            /\ IsPrefix(ts, order)
            /\ pc[r] \in {"y_complete", "done"} => ts = order
            /\ pc[r] \notin {"y_complete", "done"} => ts # order

C1_Witness ==
    \E r \in Requests :
        /\ pc[r] = "done"
        /\ raised[r] = ""
        /\ is_first_message[r]
        /\ Len(frames[r]) = 8
        /\ frames[r][7].type = "title_complete"

\* C2: when a step has failed, the stream holds exactly one error frame, it
\* carries the failure description and is the last frame (in this state and
\* every later one), there is no complete frame, and the frames before it are
\* a proper prefix of the normal order; an error frame appears only when a
\* step has failed.
C2_SingleTerminalError ==
    \A r \in Requests :
        LET ts == Types(frames[r]) IN
        /\ raised[r] # "" =>
               /\ raised[r] \in Failures
               /\ Len(frames[r]) >= 1
               /\ Last(frames[r]) = Frame("error", raised[r])
               /\ Cardinality({i \in 1..Len(ts) : ts[i] = "error"}) = 1
               /\ \A i \in 1..Len(ts) : ts[i] # "complete"
               /\ IsPrefix(Front(ts), NormalOrder(is_first_message[r]))
               /\ pc[r] \in {"y_error", "done"}
        /\ raised[r] = "" => \A i \in 1..Len(ts) : ts[i] # "error"

C2_Witness ==
    \E r \in Requests :
        /\ pc[r] = "done"
        /\ raised[r] = "add_assistant_message"
        /\ Len(frames[r]) = 8
        /\ frames[r][7].type = "title_complete"
        /\ frames[r][8] = Frame("error", "add_assistant_message")

\* the user message of turn r is in the stored conversation
UserPersisted(r) == \E i \in 1..Len(messages) : messages[i] = UserMessage(r)

\* the generator of turn r has started the title task or called a phase
ModelCallMade(r) ==
    \/ title_task[r] # "None"
    \/ pc[r] \in {"await_stage1", "y_stage1_complete", "y_stage2_start", "await_stage2",
                  "y_stage2_complete", "y_stage3_start", "await_stage3",
                  "y_stage3_complete", "await_title", "y_title_complete", "y_complete"}
    \/ stage1_results[r] # Unset
    \/ stage2_results[r] # Unset
    \/ stage3_result[r] # Unset
    \/ Len(frames[r]) >= 2

\* C19: in every state in which a turn has started its title task or called a
\* phase, the turn's user message is stored; a turn whose add_user_message
\* failed has stored nothing, started no title task, called no phase and
\* emitted the error frame only; and the user message is stored as soon as the
\* generator has passed its first step without that failure.
C19_UserMessageFirst ==
    \A r \in Requests :
        LET persisted == UserPersisted(r)
            called == ModelCallMade(r)
        IN
        /\ called => (persisted /\ raised[r] # "add_user_message")
        /\ raised[r] = "add_user_message" =>
              /\ ~persisted
              /\ ~called
              /\ frames[r] = <<ErrorFrame("add_user_message")>>
        /\ (pc[r] \notin {"idle", "http404", "start"} /\ raised[r] # "add_user_message") =>
              persisted

\* one turn waits in phase 1 with its title task started and its message
\* stored, the other failed to store its message
C19_Witness ==
    \E r, q \in Requests :
        /\ pc[r] = "await_stage1" /\ title_task[r] = "pending" /\ UserPersisted(r)
        /\ raised[q] = "add_user_message" /\ ~UserPersisted(q)

\* where in the stored conversation the assistant message of turn r stands
AssistantSaved(r) ==
    {i \in 1..Len(messages) :
        /\ messages[i].role = "assistant"
        /\ messages[i].stage1 = StageOutput("stage1_results", r)
        /\ messages[i].stage2 = StageOutput("stage2_results", r)
        /\ messages[i].stage3 = StageOutput("stage3_result", r)}

\* the data of the frame of one type in a stream
DataOf(fs, type) == {fs[i].data : i \in {j \in 1..Len(fs) : fs[j].type = type}}

\* C20: the stored conversation holds the assistant message of a turn at most
\* once, and exactly when the turn has emitted complete; it then holds the
\* outputs the turn's stage1_complete, stage2_complete and stage3_complete
\* frames carried, stands after the turn's user message, and stage3_complete
\* was emitted before; a turn that ended in an error frame has stored none;
\* and every assistant message made by the running turns is such a message.
C20_AssistantAfterStage3 ==
    /\ \A r \in Requests :
          LET saved == AssistantSaved(r) IN
          /\ Cardinality(saved) <= 1
          /\ saved # {} <=> (\E i \in 1..Len(frames[r]) : frames[r][i].type = "complete")
          /\ saved # {} =>
                /\ pc[r] \in {"y_complete", "done"}
                /\ DataOf(frames[r], "stage1_complete") = {StageOutput("stage1_results", r)}
                /\ DataOf(frames[r], "stage2_complete") = {StageOutput("stage2_results", r)}
                /\ DataOf(frames[r], "stage3_complete") = {StageOutput("stage3_result", r)}
                /\ \A i \in saved :
                      \E j \in 1..(i - 1) : messages[j] = UserMessage(r)
          /\ raised[r] # "" => saved = {}
    /\ LET savedByTurns == UNION {AssistantSaved(r) : r \in Requests} IN
       \A i \in 1..Len(messages) :
          (messages[i].role = "assistant" /\ messages[i].stage3 # StageOutput("stage3_result", 0)) =>
              i \in savedByTurns

\* one turn stored its assistant message after the title, the other ended in
\* an error after phase 3 and stored none
C20_Witness ==
    \E r, q \in Requests :
        /\ pc[r] = "done" /\ AssistantSaved(r) # {}
        /\ Types(frames[r]) = NormalOrder(TRUE)
        /\ raised[q] = "add_assistant_message" /\ AssistantSaved(q) = {}
        /\ Cardinality({i \in 1..Len(messages) : messages[i].role = "assistant"}) = 1

\* the positions of the frames of one type in a stream
PositionsOf(fs, type) == {i \in 1..Len(fs) : fs[i].type = type}

\* C21: in every state, a turn has a title task exactly when its request
\* found the conversation empty and its generator has stored the user
\* message; the task
\* exists before stage1_start is emitted; while it is pending the phases can
\* still return; the generator waits for it only after emitting
\* stage3_complete; title_complete is emitted only by a turn whose task is
\* done, after stage3_complete, with the title stored, and before complete;
\* a turn whose request found messages has no task and emits no
\* title_complete.
C21_TitleOffCriticalPath ==
    [] \A r \in Requests :
        LET ts == Types(frames[r])
            titled == PositionsOf(frames[r], "title_complete")
            completed == PositionsOf(frames[r], "complete")
        IN
        /\ title_task[r] # "None" <=>
              (/\ is_first_message[r]
               /\ pc[r] \notin {"idle", "http404", "start"}
               /\ raised[r] # "add_user_message")
        /\ (is_first_message[r] /\ title_task[r] = "None") =>
              PositionsOf(frames[r], "stage1_start") = {}
        /\ (title_task[r] = "pending" /\ pc[r] = "await_stage1") => ENABLED Stage1Return(r)
        /\ (title_task[r] = "pending" /\ pc[r] = "await_stage2") => ENABLED Stage2Return(r)
        /\ (title_task[r] = "pending" /\ pc[r] = "await_stage3") => ENABLED Stage3Return(r)
        /\ pc[r] = "await_title" =>
              (title_task[r] # "None" /\ Last(ts) = "stage3_complete")
        /\ titled # {} =>
              /\ title_task[r] = "done"
              /\ title = "generated title"
              /\ \A i \in titled :
                    /\ i > 1 /\ ts[i - 1] = "stage3_complete"
                    /\ \A j \in completed : i < j
        /\ (title_task[r] # "None" /\ completed # {}) => titled # {}
        /\ (~is_first_message[r] /\ pc[r] \notin {"idle", "http404"}) =>
              /\ Len(messages) > 0
              /\ title_task[r] = "None"
              /\ titled = {}

\* a first turn in phase 2 with its title task still pending, beside a later
\* turn that completed without a title
C21_Witness ==
    \E r, q \in Requests :
        /\ is_first_message[r] /\ pc[r] = "await_stage2" /\ title_task[r] = "pending"
        /\ ~is_first_message[q] /\ pc[q] = "done" /\ raised[q] = ""
        /\ title_task[q] = "None"
        /\ Types(frames[q]) = NormalOrder(FALSE)

\* C25: a turn that has emitted stage3_complete and whose generator has ended
\* without a storage call failing has emitted complete and stored its
\* assistant message.
C25_CompletedTurnPersisted ==
    \A r \in Requests :
        (/\ pc[r] = "done"
         /\ PositionsOf(frames[r], "stage3_complete") # {}
         /\ raised[r] \notin {"update_conversation_title", "add_assistant_message"}) =>
            /\ PositionsOf(frames[r], "complete") # {}
            /\ AssistantSaved(r) # {}

\* C26: among the turns of the conversation at most one has a title task, and
\* at most one stream holds title_complete.
C26_OneTitlePerConversation ==
    /\ Cardinality({r \in Requests : title_task[r] # "None"}) <= 1
    /\ Cardinality({r \in Requests : PositionsOf(frames[r], "title_complete") # {}}) <= 1

(***************************************************************************)
(* Claims about the provider registry.                                     *)
(***************************************************************************)
Distinct(s) == Cardinality(Range(s)) = Len(s)

\* the queries of the call that ended without a response dict
FailedTasks == {i \in Tasks : ~responses[i].ok}

\* C3: query_models_parallel creates one query per position of model_ids, each
\* calls its provider at most once, and the call returns only when every
\* query is done; the key set of the returned mapping is the set of input
\* identifiers, and each identifier maps to what its own query (the last one
\* made for it) returned: a response obtained for that very identifier, or
\* None when that query failed.
C3_ParallelCoversEveryId ==
    call.mode = "parallel" =>
        /\ Len(tstate) = Len(call.model_ids)
        /\ \A i \in Tasks : Len(invocations[i]) <= 1
        /\ returned =>
            /\ \A i \in Tasks : tstate[i] = "done"
            /\ DOMAIN result = Range(call.model_ids)
            /\ \A id \in DOMAIN result :
                 LET i == LastIndex(call.model_ids, id) IN
                 /\ result[id] = responses[i]
                 /\ result[id].ok => result[id].id = id /\ Len(invocations[i]) = 1
                 /\ ~result[id].ok => result[id] = NoneResponse

C3_Witness ==
    /\ call.mode = "parallel"
    /\ returned
    /\ Len(call.model_ids) = 2
    /\ Distinct(call.model_ids)
    /\ \E id \in DOMAIN result : result[id].ok
    /\ \E id \in DOMAIN result : ~result[id].ok

\* C4 as claimed: whenever exactly one of the N queries of a returned
\* query_models_parallel call failed, the mapping has N entries, one of them
\* None and N-1 of them responses.
C4_Original ==
    (call.mode = "parallel" /\ returned /\ Cardinality(FailedTasks) = 1) =>
        /\ Cardinality(DOMAIN result) = Len(call.model_ids)
        /\ Cardinality({id \in DOMAIN result : ~result[id].ok}) = 1
        /\ Cardinality({id \in DOMAIN result : result[id].ok}) = Len(call.model_ids) - 1

\* C4, amended: the same for N pairwise distinct identifiers; and a query
\* that is still running never keeps another one from finishing.
C4_OneFailureAmongDistinct ==
    /\ (call.mode = "parallel" /\ returned /\ Distinct(call.model_ids)
        /\ Cardinality(FailedTasks) = 1) =>
           /\ Cardinality(DOMAIN result) = Len(call.model_ids)
           /\ Cardinality({id \in DOMAIN result : ~result[id].ok}) = 1
           /\ Cardinality({id \in DOMAIN result : result[id].ok}) = Len(call.model_ids) - 1
           /\ \A i \in Tasks : responses[i].ok => result[call.model_ids[i]] = OkResponse(i)
    /\ call.mode = "parallel" =>
           \A i \in Tasks : tstate[i] = "awaiting" => ENABLED ProviderReturn(i)

C4_Witness ==
    /\ call.mode = "parallel"
    /\ returned
    /\ Len(call.model_ids) = 2
    /\ Distinct(call.model_ids)
    /\ Cardinality(FailedTasks) = 1
    /\ \E i \in Tasks : ~responses[i].ok /\ Len(invocations[i]) = 1

\* the events of a sequential fan-out over n identifiers with delay d:
\* call 1, return 1, sleep d, call 2, return 2, ..., sleep d, call n, return n
RECURSIVE ExpectedEvents(_, _)
ExpectedEvents(n, d) ==
    IF n = 0 THEN <<>>
    ELSE IF n = 1 THEN <<Event("call", 1), Event("return", 1)>>
    ELSE ExpectedEvents(n - 1, d)
         \o <<Event("sleep", d), Event("call", n), Event("return", n)>>

\* C5: in query_models_sequential the queries and sleeps happen in the order
\* call 1, return 1, sleep, call 2, return 2, ...: query i+1 starts only after
\* query i has returned, each sleep has the configured delay and sits between
\* two consecutive queries (N-1 sleeps over N identifiers, none before the
\* first or after the last); the returned mapping has every input identifier
\* as a key, mapped to what its last query returned (None when it failed).
C5_SequentialOrder ==
    call.mode = "sequential" =>
        /\ IsPrefix(events, ExpectedEvents(Len(call.model_ids), call.delay))
        /\ \A i \in Tasks : tstate[i] # "created" =>
               \A j \in 1..(i - 1) : tstate[j] = "done"
        /\ returned =>
            /\ events = ExpectedEvents(Len(call.model_ids), call.delay)
            /\ Cardinality({k \in 1..Len(events) : events[k].kind = "sleep"})
                   = IF Len(call.model_ids) = 0 THEN 0 ELSE Len(call.model_ids) - 1
            /\ DOMAIN result = Range(call.model_ids)
            /\ \A id \in DOMAIN result :
                   result[id] = responses[LastIndex(call.model_ids, id)]

C5_Witness ==
    /\ call.mode = "sequential"
    /\ returned
    /\ Len(call.model_ids) = 2
    /\ call.delay = 2
    /\ events[3] = Event("sleep", 2)
    /\ \E i \in Tasks : ~responses[i].ok
    /\ \E i \in Tasks : responses[i].ok

\* C8: a step of query_model that calls a provider's query_model calls the
\* provider registered under the parsed name, once, with the parsed model name
\* and the call's timeout, and only if that provider is available (a key is
\* configured, a token file is stored); a step that finds the provider
\* unregistered or unavailable ends the query with None and calls no provider.
C8_QueryModelRouting ==
    [][\A i \in 1..MaxModels :
          (i \in Tasks /\ tstate[i] = "created" /\ tstate'[i] # "created") =>
              LET parsed == parse_model_identifier(call.model_ids[i])
                  name == parsed[1]
                  unavailable ==
                      \/ name \notin DOMAIN providers
                      \/ providers[name] = "OpenRouterProvider" /\ ~api_key
                      \/ providers[name] = "CopilotProvider" /\ token_file = NoFile
              IN /\ unavailable =>
                     /\ tstate'[i] = "done"
                     /\ responses'[i] = NoneResponse
                     /\ invocations'[i] = <<>>
                 /\ tstate'[i] = "awaiting" =>
                     /\ ~unavailable
                     /\ invocations'[i] =
                            <<[provider |-> name, kind |-> providers[name],
                               model |-> parsed[2], timeout |-> call.timeout]>>
                 /\ tstate'[i] = "done" => responses'[i] = NoneResponse /\ invocations'[i] = <<>>
                 /\ \A j \in Tasks : j # i => invocations'[j] = invocations[j]]_vars

C8_Witness ==
    /\ call.mode = "single"
    /\ returned
    /\ call.model_ids = <<<<"copilot", "/", "gpt">>>>
    /\ tstate[1] = "done"
    /\ invocations[1] = <<>>
    /\ token_file = NoFile

(***************************************************************************)
(* Claims about parse_model_identifier.                                    *)
(***************************************************************************)
HasSeparator(s) == \E i \in 1..Len(s) : s[i] = Separator

\* C6: for a non-empty identifier, parse_model_identifier returns (copilot,
\* id) when id holds no separator; otherwise, with the text before the first
\* separator as prefix, (prefix, everything after that separator) when prefix
\* is a registered name, and (openrouter, id) when it is not.
C6_ParseRule ==
    parse_seq # 0 =>
        IF ~HasSeparator(parse_arg)
        THEN parse_ret = <<"copilot", parse_arg>>
        ELSE \E k \in 1..Len(parse_arg) :
               /\ parse_arg[k] = Separator
               /\ \A j \in 1..(k - 1) : parse_arg[j] # Separator
               /\ IF k = 2 /\ parse_arg[1] \in parse_names
                  THEN parse_ret = <<parse_arg[1],
                                     [j \in 1..(Len(parse_arg) - k) |-> parse_arg[j + k]]>>
                  ELSE parse_ret = <<"openrouter", parse_arg>>

C6_Witness ==
    /\ parse_seq # 0
    /\ parse_arg = <<"openrouter", "/", "/">>
    /\ parse_ret = <<"openrouter", <<"/">>>>

\* C7 as claimed: a later call with the same identifier returns what the
\* earlier call returned, whatever happened in between.
C7_Original ==
    [][(parse_seq # 0 /\ parse_seq' # parse_seq) => parse_ret' = parse_ret]_vars

\* C7, amended: a parse call changes nothing of the registry, the Copilot
\* service or the call in progress, and a later call with the same identifier
\* returns what the earlier call returned provided no new provider name was
\* registered in between (queries, logins and logouts in between change
\* nothing).
C7_StableWhileNamesUnchanged ==
    [][parse_seq' # parse_seq =>
          /\ UNCHANGED <<registryVars, copilotVars, streamVars>>
          /\ (parse_seq # 0 /\ parse_names = DOMAIN providers) => parse_ret' = parse_ret]_vars

C7_Witness ==
    /\ parse_seq = 2
    /\ parse_arg = <<"copilot", "/", "gpt">>
    /\ parse_ret = <<"copilot", <<"gpt">>>>
    /\ returned
    /\ token_file = NoFile

(***************************************************************************)
(* Claims about the API-token cache.                                       *)
(***************************************************************************)
\* C9: a call of get_copilot_api_token returns at once, with the cached token
\* and without an exchange request, exactly when a token is cached and
\* now < expires (so never at or after the expiry); a call that finds no
\* valid cached token but a stored access token sends exactly one exchange
\* request, and when that request yields a token the token is cached with
\* expiry now + 25 minutes and returned.
C9_CacheHitOrOneExchange ==
    [][\A c \in Callers :
          /\ (tpc[c] = "idle" /\ tpc'[c] # "idle") =>
                /\ (cached_api_token # 0 /\ now < api_token_expires)
                       <=> (/\ tpc'[c] = "returned"
                            /\ tret'[c] # 0)
                /\ (cached_api_token # 0 /\ now < api_token_expires) =>
                       /\ tret'[c] = cached_api_token
                       /\ texchanges'[c] = <<>>
                       /\ exchange_count' = exchange_count
                /\ (~(cached_api_token # 0 /\ now < api_token_expires)
                    /\ token_file = encrypt_token("gho_token")) =>
                       /\ tpc'[c] = "exchanging"
                       /\ Len(texchanges'[c]) = 1
                       /\ exchange_count' = exchange_count + 1
          /\ (tpc[c] = "exchanging" /\ tpc'[c] = "returned") =>
                /\ Len(texchanges'[c]) = 1
                /\ exchange_count' = exchange_count
                /\ toutcome'[c] = "token" =>
                       /\ tret'[c] # 0
                       /\ cached_api_token' = tret'[c]
                       /\ api_token_expires' = now + 25 * 60]_vars

C9_Witness ==
    \E c \in Callers :
        /\ tpc[c] = "returned"
        /\ toutcome[c] = "cache"
        /\ tret[c] # 0
        /\ now = api_token_expires - 1

\* C10: a call that finds no valid cached token and no stored access token (no
\* file, or a file that does not decrypt) returns None without sending an
\* exchange request; a call whose exchange request fails returns None and
\* leaves the cached token and its expiry as they were.
C10_NoTokenNoExchange ==
    [][\A c \in Callers :
          /\ (/\ tpc[c] = "idle" /\ tpc'[c] # "idle"
              /\ ~(cached_api_token # 0 /\ now < api_token_expires)
              /\ token_file \in {NoFile, Tampered}) =>
                /\ tpc'[c] = "returned"
                /\ tret'[c] = 0
                /\ texchanges'[c] = <<>>
                /\ exchange_count' = exchange_count
                /\ UNCHANGED <<cached_api_token, api_token_expires>>
          /\ (tpc[c] = "exchanging" /\ tpc'[c] = "returned" /\ toutcome'[c] = "error") =>
                /\ tret'[c] = 0
                /\ UNCHANGED <<cached_api_token, api_token_expires>>]_vars

C10_Witness ==
    \E c \in Callers :
        /\ tpc[c] = "returned"
        /\ toutcome[c] = "error"
        /\ cached_api_token # 0
        /\ now >= api_token_expires

(***************************************************************************)
(* Claims about CopilotService.query_model and the device flow.            *)
(***************************************************************************)
\* C11: a call of query_model sends at most one completion request, only after
\* its own call of get_copilot_api_token has returned a token, and with that
\* token as bearer; when get_copilot_api_token returns None the call returns
\* None and has sent no completion request; when the completion request ends
\* with an HTTP error status, a malformed payload or a timeout the call
\* returns None (it never ends by raising).
C11_TokenBeforeCompletion ==
    \A c \in Callers :
        /\ Len(completions[c]) <= 1
        /\ qpc[c] = "posting" => Len(completions[c]) = 1
        /\ \A i \in 1..Len(completions[c]) :
              /\ completions[c][i] # 0
              /\ tpc[c] = "returned"
              /\ toutcome[c] \in {"cache", "token"}
              /\ completions[c][i] = tret[c]
        /\ (qpc[c] # "idle" /\ tpc[c] = "returned" /\ tret[c] = 0) =>
              /\ qpc[c] = "returned"
              /\ qret[c] = None
              /\ completions[c] = <<>>
        /\ (qpc[c] = "returned" /\ qoutcome[c] \in {"http_error", "malformed", "timeout"}) =>
              qret[c] = None
        /\ qpc[c] \in {"idle", "token", "posting", "returned"}
        /\ qret[c] \in {"", None, "response"}
        /\ qret[c] = "response" => qoutcome[c] = "ok" /\ Len(completions[c]) = 1

\* one call returned None without a request for want of a token, another
\* returned None after its completion request timed out
C11_Witness ==
    \E c, d \in Callers :
        /\ qpc[c] = "returned" /\ qret[c] = None /\ completions[c] = <<>>
        /\ toutcome[c] = "unauthenticated"
        /\ qpc[d] = "returned" /\ qret[d] = None /\ qoutcome[d] = "timeout"
        /\ Len(completions[d]) = 1

\* the kinds of the entries of a poll's log, in order
Kinds(log) == [i \in 1..Len(log) |-> log[i].kind]

\* the entries of one kind, in order
OfKind(log, kind) == SelectSeq(log, LAMBDA e : e.kind = kind)

\* the answers a poll has received, in order
Answers(log) == [i \in 1..Len(OfKind(log, "response")) |-> OfKind(log, "response")[i].arg]

\* the durations of the sleeps a poll has made, in order
Sleeps(log) == [i \in 1..Len(OfKind(log, "sleep")) |-> OfKind(log, "sleep")[i].arg]

\* n polling iterations: sleep, request, answer, n times over
Iterations(n) ==
    [i \in 1..(3 * n) |-> CASE i % 3 = 1 -> "sleep"
                            [] i % 3 = 2 -> "post"
                            [] OTHER -> "response"]

\* k times authorization_pending, then access_token
PendingThenToken(answers) ==
    /\ Len(answers) >= 1
    /\ Last(answers) = "access_token"
    /\ \A i \in 1..(Len(answers) - 1) : answers[i] = "authorization_pending"

\* C12: when the answers of a poll are k times authorization_pending and then
\* access_token, the call has at that point made exactly k+1 iterations, each
\* a sleep followed by a token-endpoint request and its answer, has saved the
\* token once, returns it, and the stored file decrypts to it (the installation
\* is authenticated); after that answer the call sends nothing more.
C12_PollUntilToken ==
    [][/\ (ppc = "posting" /\ ppc' = "returned" /\ PendingThenToken(Answers(plog'))) =>
            LET n == Len(Answers(plog')) IN
            /\ n <= poll_args.max_attempts
            /\ Kinds(plog') = Iterations(n) \o <<"save">>
            /\ Len(OfKind(plog', "post")) = n
            /\ Len(OfKind(plog', "save")) = 1
            /\ pret' = Last(plog').arg
            /\ pret' \in PolledTokens
            /\ token_file' # NoFile
            /\ decrypt_token(token_file').ok
            /\ decrypt_token(token_file').plain = pret'
       /\ (ppc = "returned" /\ pret \in PolledTokens) =>
            (plog' = plog \/ plog' = <<>>)]_vars

\* two pending answers and then the token, with the file overwritten
C12_Witness ==
    /\ ppc = "returned"
    /\ Answers(plog) = <<"authorization_pending", "authorization_pending", "access_token">>
    /\ Len(OfKind(plog, "post")) = 3
    /\ pret = "gho_polled"
    /\ token_file = encrypt_token("gho_polled")

\* C13: the step in which a poll receives expired_token or access_denied ends
\* the call: it returns None (it does not raise), the answer is the last entry
\* of its log (no sleep, no request and no save follows, whatever the number
\* of attempts left) and the stored file is what it was; a call that has
\* returned None sends nothing afterwards.
C13_StopOnExpiredOrDenied ==
    [][/\ (/\ ppc = "posting"
           /\ Len(Answers(plog')) = Len(Answers(plog)) + 1
           /\ Last(Answers(plog')) \in {"expired_token", "access_denied"}) =>
            /\ ppc' = "returned"
            /\ pret' = None
            /\ Last(plog').kind = "response"
            /\ Len(OfKind(plog', "post")) = Len(OfKind(plog, "post"))
            /\ OfKind(plog', "save") = <<>>
            /\ token_file' = token_file
       /\ (ppc = "returned" /\ pret = None) =>
            (plog' = plog \/ plog' = <<>>)]_vars

\* access_denied on the first of three attempts, the stored token untouched
C13_Witness ==
    /\ ppc = "returned"
    /\ pret = None
    /\ Answers(plog) = <<"access_denied">>
    /\ poll_args.max_attempts = 3
    /\ token_file = encrypt_token("gho_token")

\* how many of the first n answers are slow_down
SlowDowns(answers, n) == Cardinality({j \in 1..n : j <= Len(answers) /\ answers[j] = "slow_down"})

\* C14: in every state of a poll, the i-th sleep lasts the interval the call
\* was made with plus 5 seconds for each slow_down among the first i-1
\* answers; every sleep but the one in progress is followed by a request; and
\* an authorization_pending or slow_down answer that is not the answer to the
\* last attempt is followed by the next sleep.
C14_SlowDownBackoff ==
    LET sleeps == Sleeps(plog)
        answers == Answers(plog)
    IN /\ \A i \in 1..Len(sleeps) :
             sleeps[i] = poll_args.interval + 5 * SlowDowns(answers, i - 1)
       /\ \A p \in 1..Len(plog) :
             /\ (plog[p].kind = "sleep" /\ p < Len(plog)) => plog[p + 1].kind = "post"
             /\ plog[p].kind = "post" => (p > 1 /\ plog[p - 1].kind = "sleep")
             /\ (/\ plog[p].kind = "response"
                 /\ plog[p].arg \in {"authorization_pending", "slow_down"}
                 /\ Len(OfKind(SubSeq(plog, 1, p), "response")) < poll_args.max_attempts) =>
                    (p < Len(plog) /\ plog[p + 1].kind = "sleep")
       /\ ppc = "sleeping" => interval = Last(sleeps)

\* slow_down, authorization_pending, and the third sleep under way
C14_Witness ==
    /\ ppc = "sleeping"
    /\ poll_args.interval = 5
    /\ Answers(plog) = <<"slow_down", "authorization_pending">>
    /\ Sleeps(plog) = <<5, 10, 10>>

\* C15: a poll never sends more than max_attempts requests; a running poll
\* ends (returns or raises) whatever the answers are; a poll that returned
\* without an access_token among its answers returned None and made no save;
\* and a step of a poll that does not receive access_token leaves the stored
\* file as it was.
C15_PollTerminates ==
    /\ [](/\ Len(OfKind(plog, "post")) <= poll_args.max_attempts
          /\ (ppc = "returned" /\ \A i \in 1..Len(Answers(plog)) : Answers(plog)[i] # "access_token") =>
                 /\ pret = None
                 /\ OfKind(plog, "save") = <<>>)
    /\ [][(plog' # plog /\ plog' # <<>> /\ Last(plog').kind # "save") =>
              token_file' = token_file]_vars
    /\ (ppc \in {"sleeping", "posting"}) ~> (ppc \in {"returned", "raised"})

\* all three attempts used up on errors the loop does not name
C15_Witness ==
    /\ ppc = "returned"
    /\ pret = None
    /\ poll_args.max_attempts = 3
    /\ Answers(plog) = <<"unsupported_grant_type", "no_error", "authorization_pending">>
    /\ Len(OfKind(plog, "post")) = 3

RECURSIVE Sum(_)
Sum(seq) == IF seq = <<>> THEN 0 ELSE seq[1] + Sum(Tail(seq))

C18_TokenFileTransitions ==
    [][/\ token_file' # token_file =>
            \/ /\ ppc = "posting" /\ ppc' = "returned"
               /\ Last(Answers(plog')) = "access_token"
               /\ pret' \in PolledTokens
               /\ token_file' = encrypt_token(pret')
            \/ /\ ClearToken
               /\ token_file # NoFile
               /\ token_file' = NoFile
       /\ (ppc = "posting" /\ ppc' = "returned" /\ pret' \in PolledTokens) =>
            (token_file' # NoFile /\ decrypt_token(token_file').plain = pret')
       /\ (\/ dpc' # dpc
           \/ tpc' # tpc
           \/ qpc' # qpc
           \/ (plog' # plog /\ (plog' = <<>> \/ Last(plog').kind # "save"))) =>
            token_file' = token_file
       /\ (token_file # NoFile /\ token_file' = NoFile) => ClearToken]_vars

\* authenticated by a poll from an absent file, with a device code issued and
\* a query answered since
C18_Witness ==
    /\ token_file = encrypt_token("gho_polled")
    /\ ppc = "returned" /\ pret = "gho_polled"
    /\ Answers(plog) = <<"authorization_pending", "access_token">>
    /\ dpc = "returned"
    /\ qpc[1] = "returned" /\ qret[1] = "response"
    /\ toutcome[1] = "token"

\* C22: a key is generated only in a step that starts without a key file, the
\* key in the key file never changes once there is one, so at most one key is
\* ever generated; decrypt_token of a ciphertext that encrypt_token made of a
\* string s, unaltered since, gives s, whatever ran in between; decrypt_token
\* of an altered ciphertext fails; and get_stored_access_token gives None for
\* a token file that is altered, and the stored token for one that is not.
C22_OneKeyRoundTrip ==
    /\ [](/\ keys_generated <= 1
          /\ key_file \in {0, keys_generated}
          /\ (rt_out # <<>> /\ ~rt_tampered) =>
                (rt_out[1].ok /\ rt_out[1].plain = rt_plain /\ rt_plain # <<>>)
          /\ (rt_out # <<>> /\ rt_tampered) => ~rt_out[1].ok
          /\ token_file = Tampered => get_stored_access_token = None
          /\ token_file \notin {NoFile, Tampered} =>
                (key_file # 0 /\ token_file[3] = key_file
                 /\ get_stored_access_token = token_file[2]))
    /\ [][/\ keys_generated' # keys_generated => key_file = 0
          /\ key_file # 0 => key_file' = key_file]_vars

\* a string encrypted when no key file existed, decrypted after a login and a
\* logout
C22_Witness ==
    /\ rt_plain = <<"g", "h", "g">>
    /\ ~rt_tampered
    /\ rt_out = <<[ok |-> TRUE, plain |-> <<"g", "h", "g">>]>>
    /\ keys_generated = 1
    /\ token_file = NoFile
    /\ cached_api_token # 0

\* C23: in every state, a cached API token that has not expired implies that
\* the token file exists.
C23_ValidCacheImpliesStoredToken ==
    (cached_api_token # 0 /\ now < api_token_expires) => token_file # NoFile

\* C24: calls of get_copilot_api_token that run at the same time have at most
\* one token exchange in flight between them.
C24_OneExchangeInFlight ==
    Cardinality({c \in Callers : tpc[c] = "exchanging"}) <= 1

=============================================================================
